---- MODULE Spec2Model ----
(***************************************************************************)
(* Model of the LMU-Baseball extract-load pipeline:                        *)
(*   src/etl/google_sheets_extract_load_raw.py  (main and its helpers)     *)
(*   src/etl/utilis.py                          (compute_row_hash)         *)
(*                                                                         *)
(* Three specifications share the module:                                  *)
(*   Spec      a sequence of runs of main() against one database table,    *)
(*             one output directory and one wall clock;                    *)
(*   SpecNorm  coerce_and_align applied to bounded data frames;            *)
(*   SpecHash  compute_row_hash applied to bounded pairs of rows.          *)
(***************************************************************************)
EXTENDS Integers, Sequences, FiniteSets, TLC

VARIABLES
    \* ---- one run of main() (a process) ----
    pc,            \* position of the running process in main()
    env,           \* the environment variables read at import (lines 11-33)
    df,            \* the local variable df of main()
    calls,         \* the calls main() has made so far in this run, in order
    caught,        \* the exception bound by "except Exception as e" (line 181)
    error,         \* the exception ending the run, NoError when there is none
    exit_code,     \* exit status of the process once it has ended, else -1
    \* ---- what outlives a run ----
    table_exists,  \* whether RAW_TABLE exists in the database
    table,         \* the rows of RAW_TABLE, in insertion order
    next_id,       \* the AUTO_INCREMENT counter of RAW_TABLE
    dir_exists,    \* whether data/raw exists
    files,         \* the files of data/raw: file name -> content
    saved,         \* the paths reported by line 202, over all runs
    clock,         \* the wall clock (UTC), in ticks
    runs,          \* number of runs started
    \* ---- SpecNorm ----
    n_in, n_out, n_done,
    \* ---- SpecHash ----
    h_cols, h_rowA, h_rowB, h_A, h_B, h_done

vars == <<pc, env, df, calls, caught, error, exit_code, table_exists, table,
          next_id, dir_exists, files, saved, clock, runs, n_in, n_out, n_done,
          h_cols, h_rowA, h_rowB, h_A, h_B, h_done>>

runVars  == <<pc, env, df, calls, caught, error, exit_code>>
sinkVars == <<table_exists, table, next_id, dir_exists, files, saved>>
mainVars == <<pc, env, df, calls, caught, error, exit_code, table_exists, table, next_id,
              dir_exists, files, saved, clock, runs>>
normVars == <<n_in, n_out, n_done>>
hashVars == <<h_cols, h_rowA, h_rowB, h_A, h_B, h_done>>

(***************************************************************************)
(* Bounds of the model.                                                    *)
(***************************************************************************)
MaxCols == 3      \* columns of a data frame in SpecNorm
MaxRows == 1      \* records of a data frame in SpecNorm
MaxLen  == 1      \* characters of a string value in SpecHash
MaxRuns == 2      \* runs of main() in Spec
MaxBatch == 2     \* records the source returns in Spec
MaxClock == 2     \* ticks the clock may advance in Spec
TicksPerSecond == 2  \* clock ticks in one second (the clock is finer than a second)

(***************************************************************************)
(* Values of a cell: a string (a sequence of characters), a number, or    *)
(* the missing value (NaN / None), kept as one record shape so that any    *)
(* two values can be compared.                                             *)
(***************************************************************************)
Null    == [t |-> "null", s |-> <<>>, n |-> 0]
StrV(s) == [t |-> "str", s |-> s, n |-> 0]
NumV(n) == [t |-> "num", s |-> <<>>, n |-> n]

isna(v) == v.t = "null"

\* A data frame: the column labels in order and the records in order, each
\* record a sequence of cells aligned with the labels.
DataFrame(c, r) == [cols |-> c, rows |-> r]

EmptyFrame == DataFrame(<<>>, <<>>)

\* main() without the check of line 192.
empty_unchecked(d) == FALSE

\* DataFrame.empty: true when either axis has length 0.
empty(d) == Len(d.rows) = 0 \/ Len(d.cols) = 0

(***************************************************************************)
(* str.strip() on a column label.  A label is a sequence of characters;    *)
(* the model writes a run of non-blank characters as one token.            *)
(***************************************************************************)
IsSpace(c) == c = " "

RECURSIVE lstrip(_)
lstrip(s) == IF s # <<>> /\ IsSpace(Head(s)) THEN lstrip(Tail(s)) ELSE s

RECURSIVE rstrip(_)
rstrip(s) ==
    IF s # <<>> /\ IsSpace(s[Len(s)]) THEN rstrip(SubSeq(s, 1, Len(s) - 1)) ELSE s

strip(s) == rstrip(lstrip(s))

(***************************************************************************)
(* pd.to_numeric(series, errors="coerce") on one value: a number stays, a  *)
(* missing value stays missing, a string that reads as a number becomes    *)
(* that number and any other string becomes missing.  The strings of the   *)
(* model are built from digits and letters, so "reads as a number" is      *)
(* "non-empty and all digits".                                             *)
(***************************************************************************)
Digits == <<"0", "1", "2", "3", "4", "5", "6", "7", "8", "9">>

IsDigit(c) == \E i \in 1..10 : Digits[i] = c

DigitVal(c) == (CHOOSE i \in 1..10 : Digits[i] = c) - 1

RECURSIVE ParseNat(_)
ParseNat(s) ==
    IF s = <<>> THEN 0
    ELSE 10 * ParseNat(SubSeq(s, 1, Len(s) - 1)) + DigitVal(s[Len(s)])

IsNumeric(s) == s # <<>> /\ \A i \in 1..Len(s) : IsDigit(s[i])

to_numeric(v) ==
    CASE v.t = "num" -> v
      [] v.t = "null" -> Null
      [] OTHER -> IF IsNumeric(v.s) THEN NumV(ParseNat(v.s)) ELSE Null

(***************************************************************************)
(* coerce_and_align (lines 108-115).  The frame is changed in place; the   *)
(* result records whether the call raised and the frame as it was left.    *)
(* df["Year"] on a frame holding the label twice is a frame, not a series, *)
(* and pd.to_numeric raises TypeError on it.                               *)
(***************************************************************************)
Year == <<"Year">>
Week == <<"Week">>

HasColumn(d, name) == \E i \in 1..Len(d.cols) : d.cols[i] = name

CountColumn(d, name) == Cardinality({i \in 1..Len(d.cols) : d.cols[i] = name})

\* coerce_and_align without line 110: the labels are left as they came.
TrimColumns_skipped(d) == d

TrimColumns(d) ==
    [d EXCEPT !.cols = [i \in 1..Len(d.cols) |-> strip(d.cols[i])]]

CoerceColumn(d, name) ==
    [d EXCEPT !.rows =
        [r \in 1..Len(d.rows) |->
            [i \in 1..Len(d.cols) |->
                IF d.cols[i] = name THEN to_numeric(d.rows[r][i])
                ELSE d.rows[r][i]]]]

\* One "if name in df.columns: df[name] = pd.to_numeric(df[name], ...)".
CoerceIfPresent(res, name) ==
    IF res.raised \/ ~HasColumn(res.df, name) THEN res
    ELSE IF CountColumn(res.df, name) > 1 THEN [res EXCEPT !.raised = TRUE]
    ELSE [res EXCEPT !.df = CoerceColumn(res.df, name)]

coerce_and_align(d) ==
    CoerceIfPresent(
        CoerceIfPresent([raised |-> FALSE, df |-> TrimColumns(d)], Year),
        Week)

(***************************************************************************)
(* compute_row_hash (src/etl/utilis.py lines 4-8).                         *)
(***************************************************************************)
\* str(n) for a natural number: its decimal digits.
RECURSIVE NatStr(_)
NatStr(n) ==
    IF n < 10 THEN <<Digits[n + 1]>>
    ELSE NatStr(n \div 10) \o <<Digits[(n % 10) + 1]>>

\* str(v) for a value that is not missing.
str(v) == IF v.t = "num" THEN NatStr(v.n) ELSE v.s

\* The separator "||".
Sep == <<"|", "|">>

\* A join that drops the separator.
RECURSIVE join_concat(_, _)
join_concat(sep, parts) ==
    IF parts = <<>> THEN <<>> ELSE parts[1] \o join_concat(sep, Tail(parts))

\* sep.join(parts)
RECURSIVE join(_, _)
join(sep, parts) ==
    IF parts = <<>> THEN <<>>
    ELSE IF Len(parts) = 1 THEN parts[1]
    ELSE parts[1] \o sep \o join(sep, Tail(parts))

\* hashlib.sha256(s.encode("utf-8")).hexdigest(), taken as collision-free:
\* the digest stands for the string it was computed from.
sha256_hexdigest(s) == [sha256 |-> s]

\* row[c]: the cell of record r under label c.
Cell(d, r, c) == d.rows[r][CHOOSE i \in 1..Len(d.cols) : d.cols[i] = c]

\* "" if pd.isna(row[c]) else str(row[c])
RenderCell(v) == IF isna(v) THEN <<>> ELSE str(v)

hash_row(d, r, cols) ==
    sha256_hexdigest(
        join(Sep, [k \in 1..Len(cols) |-> RenderCell(Cell(d, r, cols[k]))]))

compute_row_hash(d, cols) == [r \in 1..Len(d.rows) |-> hash_row(d, r, cols)]

(***************************************************************************)
(* Configuration (lines 10-33).  An environment variable is modelled by    *)
(* what main() reads of it: the source identifier by its text, the others  *)
(* by whether they are set to a non-empty value.                           *)
(***************************************************************************)
\* GSHEET_ID: unset, a bare id, a browser URL, a URL without the /d/ marker.
IdAbsent == <<>>
IdRaw    == <<"ABC123">>
IdUrl    == <<"http", "s://docs.google.com/spreadsheets", "/d/", "ABC123", "/", "edit#gid=0">>
IdBadUrl == <<"http", "s://example.com", "/", "sheet">>

SheetIds == {IdAbsent, IdRaw, IdUrl, IdBadUrl}

EnvSet ==
    [GSHEET_ID : SheetIds, GOOGLE_CREDS_JSON : BOOLEAN,
     MYSQL_HOST : BOOLEAN, MYSQL_USER : BOOLEAN,
     MYSQL_PASSWORD : BOOLEAN, MYSQL_DB : BOOLEAN]

NoEnv ==
    [GSHEET_ID |-> IdAbsent, GOOGLE_CREDS_JSON |-> FALSE,
     MYSQL_HOST |-> FALSE, MYSQL_USER |-> FALSE,
     MYSQL_PASSWORD |-> FALSE, MYSQL_DB |-> FALSE]

\* main() without the check of line 166.
ConfigMissing_unchecked(e) == FALSE

\* "if not GSHEET_ID" (line 166)
ConfigMissing(e) == e.GSHEET_ID = <<>>

(***************************************************************************)
(* normalize_sheet_id (lines 154-161) on a tokenised identifier: "http",   *)
(* "/d/" and "/" are tokens of their own.                                  *)
(***************************************************************************)
IndexOf(s, tok) ==
    IF \E i \in 1..Len(s) : s[i] = tok
    THEN CHOOSE i \in 1..Len(s) : s[i] = tok /\ \A j \in 1..(i - 1) : s[j] # tok
    ELSE 0

\* text.split(tok)[0]
BeforeFirst(s, tok) ==
    IF IndexOf(s, tok) = 0 THEN s ELSE SubSeq(s, 1, IndexOf(s, tok) - 1)

\* text.split(tok)[1], defined when tok occurs
AfterFirst(s, tok) ==
    BeforeFirst(SubSeq(s, IndexOf(s, tok) + 1, Len(s)), tok)

normalize_sheet_id(val) ==
    LET v == strip(val) IN
    IF v # <<>> /\ Head(v) = "http"
    THEN IF IndexOf(v, "/d/") # 0
         THEN [raised |-> FALSE, id |-> BeforeFirst(AfterFirst(v, "/d/"), "/")]
         ELSE [raised |-> TRUE, id |-> <<>>]
    ELSE [raised |-> FALSE, id |-> v]

(***************************************************************************)
(* The source.  What a fetch returns is the environment's choice: a batch  *)
(* of 0..MaxBatch records, or an exception.                                *)
(***************************************************************************)
YearCell(i) ==
    CASE i % 3 = 1 -> StrV(<<"2", "3">>)
      [] i % 3 = 2 -> StrV(<<"b", "a", "d">>)
      [] OTHER -> NumV(7)

SourceBatch(n) ==
    DataFrame(<<<<"Name">>, <<" ", "Year", " ">>>>,
              [i \in 1..n |-> <<StrV(<<"p", NatStr(i)[1]>>), YearCell(i)>>])

SourceBatches == {SourceBatch(n) : n \in 0..MaxBatch}

\* Exceptions of fetch_sheet_gspread: api tells a gspread APIError from any
\* other exception, text is the message.
ErrAuth        == [api |-> FALSE, text |-> "invalid credentials"]
ErrNotFound    == [api |-> FALSE, text |-> "spreadsheet not found"]
ErrNetwork     == [api |-> FALSE, text |-> "connection failed"]
ErrPermission  == [api |-> TRUE,  text |-> "permission denied"]
ErrUnsupported == [api |-> TRUE,  text |-> "not supported for this document"]
NoError        == [api |-> FALSE, text |-> "none"]

GspreadErrors == {ErrAuth, ErrNotFound, ErrNetwork, ErrPermission, ErrUnsupported}
DriveErrors   == {ErrAuth, ErrNetwork}
CsvErrors     == {ErrNotFound, ErrNetwork}
DbError       == [api |-> FALSE, text |-> "database error"]
FileError     == [api |-> FALSE, text |-> "file error"]
ValueError    == [api |-> FALSE, text |-> "not a sheets url"]
TypeError     == [api |-> FALSE, text |-> "arg must be a series"]

\* An except clause that falls back on every APIError.
FallsBack_anyApiError(e) == e.api

\* isinstance(e, APIError) and "not supported for this document" in str(e)
\* (line 183)
FallsBack(e) == e.api /\ e.text = "not supported for this document"

(***************************************************************************)
(* Sinks.                                                                  *)
(***************************************************************************)
\* A sink choice that looks at the host alone.
UseFileMode_hostOnly(e) == ~e.MYSQL_HOST

\* "if not MYSQL_HOST or not MYSQL_USER or not MYSQL_DB" (line 200)
UseFileMode(e) == ~e.MYSQL_HOST \/ ~e.MYSQL_USER \/ ~e.MYSQL_DB

\* chunksize of to_sql (line 142)
chunksize == 1000

\* strftime('%Y-%m-%d_%H%M%S') of the clock: the time cut to whole seconds.
strftime(t) == t \div TicksPerSecond

\* out_dir / f"{timestamp}_cauldron_backend.csv" (line 149)
out_path(t) == <<"data/raw", strftime(t), "_cauldron_backend.csv">>

\* df.to_csv(out_path, index=False): the file is created or replaced.
to_csv(fs, path, d) == (path :> d) @@ fs

\* The rows df.to_sql(..., if_exists="append") inserts: one new row per
\* record, numbered by the AUTO_INCREMENT counter.
NewRows(d, first_id, n) ==
    [i \in 1..n |-> [id |-> first_id + i - 1, cols |-> d.cols, cells |-> d.rows[i]]]

to_sql(tbl, d, first_id) == tbl \o NewRows(d, first_id, Len(d.rows))

\* A table-ensure that drops and recreates the table.
ensure_table_recreate(exists, tbl) == <<>>

\* CREATE TABLE IF NOT EXISTS (lines 121-134): the rows of an existing table
\* are kept, a new table is empty.
ensure_table(exists, tbl) == IF exists THEN tbl ELSE <<>>

\* Numbers of records a failed to_sql may have left behind: whole chunks
\* written before the failure, or none when the transaction rolls back.
FlushedCounts(n) == {k \in 0..(n - 1) : k % chunksize = 0}

(***************************************************************************)
(* Spec: runs of main() (lines 165-207).                                   *)
(***************************************************************************)
NoResult == [raised |-> FALSE, df |-> EmptyFrame]
NoDigest == [sha256 |-> <<"unset">>]

NormIdle == n_in = EmptyFrame /\ n_out = NoResult /\ n_done = FALSE

HashIdle ==
    /\ h_cols = <<>> /\ h_rowA = <<>> /\ h_rowB = <<>>
    /\ h_A = NoDigest /\ h_B = NoDigest /\ h_done = FALSE

MainIdle ==
    /\ pc = "idle" /\ env = NoEnv /\ df = EmptyFrame /\ calls = <<>>
    /\ caught = NoError /\ error = NoError /\ exit_code = -1
    /\ table_exists = FALSE /\ table = <<>> /\ next_id = 1
    /\ dir_exists = FALSE /\ files = <<>> /\ saved = <<>>
    /\ clock = 0 /\ runs = 0

Init == MainIdle /\ NormIdle /\ HashIdle

\* The process ends: an uncaught exception gives the interpreter's status 1,
\* sys.exit(2) gives 2, returning from main() gives 0.
Ends(e, code) == pc' = "exited" /\ error' = e /\ exit_code' = code

Raises(e) == Ends(e, 1)
Returns   == Ends(NoError, 0)

\* A new process starts; lines 166-173.
Start ==
    /\ pc \in {"idle", "exited"}
    /\ runs < MaxRuns
    /\ runs' = runs + 1
    /\ \E e \in EnvSet :
        /\ env' = e
        /\ df' = EmptyFrame
        /\ calls' = <<>>
        /\ caught' = NoError
        /\ IF ConfigMissing(e) THEN Ends(NoError, 2)
           ELSE IF normalize_sheet_id(e.GSHEET_ID).raised THEN Raises(ValueError)
           ELSE pc' = "extract" /\ error' = NoError /\ exit_code' = -1
    /\ UNCHANGED <<sinkVars, clock, normVars, hashVars>>

\* Lines 176-187, first attempt: the authenticated worksheet read.
FetchGspread ==
    /\ pc = "extract"
    /\ env.GOOGLE_CREDS_JSON
    /\ calls' = Append(calls, "fetch_sheet_gspread")
    /\ \/ \E b \in SourceBatches :
            df' = b /\ pc' = "fetched" /\ UNCHANGED <<caught, error, exit_code>>
       \/ \E e \in GspreadErrors :
            /\ UNCHANGED df
            /\ caught' = e
            /\ IF FallsBack(e)
               THEN pc' = "fallback" /\ UNCHANGED <<error, exit_code>>
               ELSE Raises(e)
    /\ UNCHANGED <<env, sinkVars, clock, runs, normVars, hashVars>>

\* Line 185: the Drive download, inside the except clause.
FetchDrive ==
    /\ pc = "fallback"
    /\ calls' = Append(calls, "fetch_drive_file_as_dataframe")
    /\ \/ \E b \in SourceBatches :
            df' = b /\ pc' = "fetched" /\ UNCHANGED <<error, exit_code>>
       \/ \E e \in DriveErrors : UNCHANGED df /\ Raises(e)
    /\ UNCHANGED <<env, caught, sinkVars, clock, runs, normVars, hashVars>>

\* Lines 188-190: the public CSV export.
FetchCsv ==
    /\ pc = "extract"
    /\ ~env.GOOGLE_CREDS_JSON
    /\ calls' = Append(calls, "fetch_sheet_csv")
    /\ \/ \E b \in SourceBatches :
            df' = b /\ pc' = "fetched" /\ UNCHANGED <<error, exit_code>>
       \/ \E e \in CsvErrors : UNCHANGED df /\ Raises(e)
    /\ UNCHANGED <<env, caught, sinkVars, clock, runs, normVars, hashVars>>

\* Lines 192-197: the empty check, then coerce_and_align.
Transform ==
    /\ pc = "fetched"
    /\ IF empty(df)
       THEN Returns /\ UNCHANGED <<df, calls>>
       ELSE /\ calls' = Append(calls, "coerce_and_align")
            /\ df' = coerce_and_align(df).df
            /\ IF coerce_and_align(df).raised
               THEN Raises(TypeError)
               ELSE pc' = "load" /\ UNCHANGED <<error, exit_code>>
    /\ UNCHANGED <<env, caught, sinkVars, clock, runs, normVars, hashVars>>

\* Lines 200-203 with write_extract (lines 145-151).
WriteExtract ==
    /\ pc = "load"
    /\ UseFileMode(env)
    /\ calls' = Append(calls, "write_extract")
    /\ \/ \* mkdir fails
          Raises(FileError) /\ UNCHANGED <<dir_exists, files, saved>>
       \/ \* to_csv fails: nothing written, or the file cut short
          /\ dir_exists' = TRUE
          /\ Raises(FileError)
          /\ UNCHANGED saved
          /\ \/ UNCHANGED files
             \/ \E k \in 0..(Len(df.rows) - 1) :
                    files' = to_csv(files, out_path(clock),
                                    DataFrame(df.cols, SubSeq(df.rows, 1, k)))
       \/ /\ dir_exists' = TRUE
          /\ files' = to_csv(files, out_path(clock), df)
          /\ saved' = Append(saved, out_path(clock))
          /\ Returns
    /\ UNCHANGED <<env, caught, df, table_exists, table, next_id, clock, runs,
                   normVars, hashVars>>

\* Lines 205-206 with load_to_mysql up to ensure_table (lines 140-141).
EnsureTable ==
    /\ pc = "load"
    /\ ~UseFileMode(env)
    /\ calls' = Append(calls, "ensure_table")
    /\ \/ Raises(DbError) /\ UNCHANGED <<table_exists, table>>
       \/ /\ table' = ensure_table(table_exists, table)
          /\ table_exists' = TRUE
          /\ pc' = "to_sql"
          /\ UNCHANGED <<error, exit_code>>
    /\ UNCHANGED <<env, caught, df, next_id, dir_exists, files, saved, clock, runs,
                   normVars, hashVars>>

\* Line 142, then line 207.
ToSql ==
    /\ pc = "to_sql"
    /\ calls' = Append(calls, "to_sql")
    /\ \/ \E k \in FlushedCounts(Len(df.rows)) :
            /\ table' = table \o NewRows(df, next_id, k)
            /\ next_id' = next_id + k
            /\ Raises(DbError)
       \/ /\ table' = to_sql(table, df, next_id)
          /\ next_id' = next_id + Len(df.rows)
          /\ Returns
    /\ UNCHANGED <<env, caught, df, table_exists, dir_exists, files, saved, clock,
                   runs,
                   normVars, hashVars>>

\* Time passes.
Tick ==
    /\ clock < MaxClock
    /\ clock' = clock + 1
    /\ UNCHANGED <<runVars, sinkVars, runs, normVars, hashVars>>

Next ==
    \/ Start
    \/ FetchGspread
    \/ FetchDrive
    \/ FetchCsv
    \/ Transform
    \/ WriteExtract
    \/ EnsureTable
    \/ ToSql
    \/ Tick

Spec == Init /\ [][Next]_vars

(***************************************************************************)
(* SpecNorm: coerce_and_align on every frame of a bounded family.          *)
(***************************************************************************)
\* Column labels as the source gives them.
Labels ==
    {<<"Name">>, <<"Year">>, <<" ", "Year", " ">>, <<"Week">>, <<"Team">>,
     <<"Unmapped">>}

\* Cell values as the source gives them.
Cells == {StrV(<<"2", "3">>), StrV(<<"b", "a", "d">>), Null, NumV(7)}

\* A source never gives the same label twice (gspread refuses a repeated
\* header, read_csv renames it), so the labels of a frame are distinct.
LabelLists ==
    {c \in UNION {[1..k -> Labels] : k \in 1..MaxCols} :
        \A i, j \in DOMAIN c : c[i] = c[j] => i = j}

\* A record holding a in its odd columns and b in its even ones.
Record(k, a, b) == [i \in 1..k |-> IF i % 2 = 1 THEN a ELSE b]

Frames ==
    {DataFrame(c, r) :
        c \in LabelLists,
        r \in UNION {[1..m -> {Record(MaxCols, a, b) : a, b \in Cells}] :
                        m \in 0..MaxRows}}

\* The records are cut to the width of the frame.
Fit(d) ==
    [d EXCEPT !.rows =
        [r \in 1..Len(d.rows) |-> SubSeq(d.rows[r], 1, Len(d.cols))]]

InitNorm ==
    /\ MainIdle /\ HashIdle
    /\ n_in \in {Fit(d) : d \in Frames}
    /\ n_out = NoResult
    /\ n_done = FALSE

Normalize ==
    /\ ~n_done
    /\ n_out' = coerce_and_align(n_in)
    /\ n_done' = TRUE
    /\ UNCHANGED <<n_in, mainVars, hashVars>>

NextNorm == Normalize

SpecNorm == InitNorm /\ [][NextNorm]_vars

(***************************************************************************)
(* SpecHash: compute_row_hash on every pair of records of a bounded        *)
(* family, over each list of hashed columns.                               *)
(***************************************************************************)
HashAlphabet == {"a", "1", "|"}

HashStrings == UNION {[1..k -> HashAlphabet] : k \in 0..MaxLen}

HashValues == {StrV(x) : x \in HashStrings} \cup {Null, NumV(1)}

HashFrameCols == <<<<"Name">>, <<"Team">>>>

HashColLists == {<<<<"Name">>, <<"Team">>>>, <<<<"Team">>, <<"Name">>>>, <<<<"Team">>>>}

InitHash ==
    /\ MainIdle /\ NormIdle
    /\ h_rowA \in [1..2 -> HashValues]
    /\ h_rowB \in [1..2 -> HashValues]
    /\ h_cols = <<>>
    /\ h_A = NoDigest /\ h_B = NoDigest /\ h_done = FALSE

HashRows ==
    /\ ~h_done
    /\ \E cols \in HashColLists :
        LET h == compute_row_hash(DataFrame(HashFrameCols, <<h_rowA, h_rowB>>), cols)
        IN  h_cols' = cols /\ h_A' = h[1] /\ h_B' = h[2]
    /\ h_done' = TRUE
    /\ UNCHANGED <<h_rowA, h_rowB, mainVars, normVars>>

NextHash == HashRows

SpecHash == InitHash /\ [][NextHash]_vars

(***************************************************************************)
(* Properties of Spec.                                                     *)
(***************************************************************************)
InCalls(name) == \E i \in 1..Len(calls) : calls[i] = name

CountCalls(name) == Cardinality({i \in 1..Len(calls) : calls[i] = name})

FetchCalls == {"fetch_sheet_gspread", "fetch_drive_file_as_dataframe", "fetch_sheet_csv"}
SinkCalls  == {"write_extract", "ensure_table", "to_sql"}

LastCall == IF calls = <<>> THEN "none" ELSE calls[Len(calls)]

HostUserDb == env.MYSQL_HOST /\ env.MYSQL_USER /\ env.MYSQL_DB

HostUserPasswordDb == HostUserDb /\ env.MYSQL_PASSWORD

CellsOf(tbl) == [i \in 1..Len(tbl) |-> tbl[i].cells]

\* C1: the sink table is append-only.  No step removes or changes a row
\* already in the table; only the append of a database-mode run changes the
\* table at all; table-ensure on an existing table can succeed and then
\* leaves the rows as they were; a run that ends in success has added
\* exactly the records of its batch, in order, after the rows already there
\* (so the same batch run again is added again).
C1_AppendOnly ==
    /\ [](pc = "load" /\ HostUserDb /\ table_exists
            => ENABLED (EnsureTable /\ pc' = "to_sql" /\ table' = table))
    /\ [][/\ Len(table') >= Len(table)
          /\ SubSeq(table', 1, Len(table)) = table
          /\ (pc # "to_sql" => table' = table)
          /\ (pc = "to_sql" /\ pc' = "exited" /\ exit_code' = 0
                => /\ Len(table') = Len(table) + Len(df.rows)
                   /\ CellsOf(SubSeq(table', Len(table) + 1, Len(table'))) = df.rows
                   /\ Len(df.rows) > 0)]_vars

\* C1 witness: the second database-mode run has ended in success on the
\* table the first one created, and added the same batch a second time.
C1_Witness ==
    /\ pc = "exited" /\ exit_code = 0 /\ LastCall = "to_sql" /\ runs = 2
    /\ Len(df.rows) = 2 /\ Len(table) = 4
    /\ CellsOf(SubSeq(table, 1, 2)) = CellsOf(SubSeq(table, 3, 4))
    /\ table[4].id = 4

\* The sink part of C2 for a given reading of "the database is configured".
C2_State(configured) ==
    /\ InCalls("ensure_table") => configured
    /\ InCalls("write_extract") => ~configured
    /\ ~(InCalls("ensure_table") /\ InCalls("write_extract"))
    /\ InCalls("to_sql") => InCalls("ensure_table")
    /\ CountCalls("ensure_table") <= 1 /\ CountCalls("write_extract") <= 1
    /\ CountCalls("to_sql") <= 1
    /\ (pc = "exited" /\ InCalls("coerce_and_align") /\ error # TypeError)
         => (InCalls("ensure_table") \/ InCalls("write_extract"))
    /\ error = DbError
         => pc = "exited" /\ exit_code = 1 /\ ~InCalls("write_extract")

C2_Step(configured) ==
    /\ (files' # files \/ dir_exists' # dir_exists)
         => ~configured /\ table' = table /\ table_exists' = table_exists
    /\ (table' # table \/ table_exists' # table_exists)
         => configured /\ files' = files /\ dir_exists' = dir_exists

\* C2 as amended: in every run with a non-empty batch exactly one sink is
\* attempted, the database exactly when host, user and database name are
\* all set (the password is not looked at), the file otherwise; a database
\* error ends the run with a failure status and no extract file; no run
\* touches both the table and the output directory.
C2_SinkByHostUserDb ==
    [](C2_State(HostUserDb)) /\ [][C2_Step(HostUserDb)]_vars

\* C2 as stated: the same with the database chosen exactly when host, user,
\* password and database name are all set.
C2_SinkByFullConfig ==
    [](C2_State(HostUserPasswordDb)) /\ [][C2_Step(HostUserPasswordDb)]_vars

\* C2 witness: a run without a password has ended in a database error and
\* written no file.
C2_Witness ==
    /\ pc = "exited" /\ error = DbError /\ exit_code = 1
    /\ HostUserDb /\ ~env.MYSQL_PASSWORD
    /\ InCalls("to_sql") /\ files = <<>> /\ ~dir_exists

FetchErrors == GspreadErrors \cup DriveErrors \cup CsvErrors

\* C3: with credentials the worksheet read comes first and the public
\* export is never used; the Drive download is attempted exactly when the
\* worksheet read failed with the unsupported-document error; any other
\* fetch failure, and a failure of the download, ends the run with that
\* error and without a normalize or sink call; without credentials only the
\* public export is used; no fetch is made after one that succeeded.
C3_SourceStrategy ==
    /\ env.GOOGLE_CREDS_JSON /\ calls # <<>>
         => calls[1] = "fetch_sheet_gspread" /\ ~InCalls("fetch_sheet_csv")
    /\ ~env.GOOGLE_CREDS_JSON /\ calls # <<>>
         => /\ calls[1] = "fetch_sheet_csv"
            /\ ~InCalls("fetch_sheet_gspread")
            /\ ~InCalls("fetch_drive_file_as_dataframe")
    /\ \A f \in FetchCalls : CountCalls(f) <= 1
    /\ InCalls("fetch_drive_file_as_dataframe")
         => caught = ErrUnsupported /\ calls[2] = "fetch_drive_file_as_dataframe"
    /\ caught = ErrUnsupported
         => pc = "fallback" \/ InCalls("fetch_drive_file_as_dataframe")
    /\ caught \notin {NoError, ErrUnsupported}
         => /\ pc = "exited" /\ error = caught /\ exit_code = 1
            /\ calls = <<"fetch_sheet_gspread">>
    /\ error \in FetchErrors
         => /\ pc = "exited" /\ exit_code = 1
            /\ \A i \in 1..Len(calls) : calls[i] \in FetchCalls
    /\ \A i \in 1..Len(calls) :
         calls[i] \in FetchCalls => i = 1 \/ (i = 2 /\ caught = ErrUnsupported)

\* C3 witness: the worksheet read failed as unsupported, the download
\* supplied the batch and the run wrote it.
C3_Witness ==
    /\ pc = "exited" /\ exit_code = 0 /\ caught = ErrUnsupported
    /\ calls = <<"fetch_sheet_gspread", "fetch_drive_file_as_dataframe",
                 "coerce_and_align", "write_extract">>

\* C4: when the fetch returns zero records the run makes no further call
\* (no normalize, no hash, no sink), changes neither the table nor the
\* output directory, and ends with status 0.
C4_EmptyBatch ==
    /\ [](pc = "exited" /\ calls # <<>> /\ error = NoError /\ Len(df.rows) = 0
            => /\ exit_code = 0
               /\ \A i \in 1..Len(calls) : calls[i] \in FetchCalls)
    /\ [][pc = "fetched" /\ Len(df.rows) = 0 /\ pc' # pc
            => /\ pc' = "exited" /\ exit_code' = 0 /\ error' = NoError
               /\ calls' = calls
               /\ sinkVars' = sinkVars]_vars

\* C4 witness: a database-mode run has ended on an empty batch from the
\* Drive download.
C4_Witness ==
    /\ pc = "exited" /\ exit_code = 0 /\ Len(df.rows) = 0 /\ HostUserDb
    /\ calls = <<"fetch_sheet_gspread", "fetch_drive_file_as_dataframe">>
    /\ ~table_exists /\ ~dir_exists

\* C5: a run without source identifier ends with status 2 before any call;
\* status 2 is given in no other case; the status is 0 exactly when the
\* sink write returned or the run stopped on an empty batch; every other
\* end is status 1.
C5_ExitStatus ==
    pc = "exited" =>
        /\ exit_code \in {0, 1, 2}
        /\ (env.GSHEET_ID = IdAbsent <=> exit_code = 2)
        /\ (exit_code = 2 => calls = <<>> /\ df = EmptyFrame)
        /\ (exit_code = 0 <=>
              /\ error = NoError
              /\ \/ LastCall \in {"write_extract", "to_sql"}
                 \/ (LastCall \in FetchCalls /\ Len(df.rows) = 0))
        /\ (error # NoError => exit_code = 1)
        /\ (env.GSHEET_ID = IdBadUrl => exit_code = 1 /\ calls = <<>>)
        /\ (exit_code = 1 => error # NoError)

\* C5 witness: a run without source identifier has ended with status 2
\* after an earlier run wrote to the table.
C5_Witness ==
    /\ pc = "exited" /\ exit_code = 2 /\ env.GSHEET_ID = IdAbsent
    /\ calls = <<>> /\ Len(table) > 0

\* C6 as stated: a run that reaches its sink has called the hasher after
\* coerce_and_align and before the sink.
C6_HashBeforeSink ==
    \A k \in 1..Len(calls) :
        calls[k] \in SinkCalls =>
            \E i, j \in 1..Len(calls) :
                /\ i < j /\ j < k
                /\ calls[i] = "coerce_and_align"
                /\ calls[j] = "compute_row_hash"

\* C8 as stated: every file-mode run that ended in success has a file of
\* its own in the output directory: the paths the runs reported are there
\* and are pairwise different, so k runs leave k files.
C8_OneFilePerRun ==
    /\ \A i \in 1..Len(saved) : saved[i] \in DOMAIN files
    /\ \A i, j \in 1..Len(saved) : saved[i] = saved[j] => i = j
    /\ Cardinality(DOMAIN files) >= Len(saved)

(***************************************************************************)
(* Properties of SpecNorm.                                                 *)
(***************************************************************************)
\* A label without its blanks (the labels of the model have none inside).
Core(label) == SelectSeq(label, LAMBDA c : c # " ")

CoreLabels(d) == [i \in 1..Len(d.cols) |-> Core(d.cols[i])]

\* The recognised columns, in their fixed order.
SchemaOrder ==
    <<(<<"Name">>), (<<"Year">>), (<<"Season">>), (<<"Team">>), (<<"Captain">>),
      (<<"Week">>)>>

InSchema(label) == \E k \in 1..Len(SchemaOrder) : SchemaOrder[k] = label

\* The recognised labels among labs in schema order, then the others as
\* they came.
SchemaFirst(labs) ==
    SelectSeq(SchemaOrder, LAMBDA x : \E i \in 1..Len(labs) : labs[i] = x)
        \o SelectSeq(labs, LAMBDA x : ~InSchema(x))

\* C9 as stated: the output lists the recognised columns present first, in
\* the order Name, Year, Season, Team, Captain, Week, then the remaining
\* columns in their original order, and holds the same set of columns.
C9_SchemaColumnsFirst ==
    n_done /\ ~n_out.raised =>
        /\ n_out.df.cols = SchemaFirst(CoreLabels(n_in))
        /\ {n_out.df.cols[i] : i \in 1..Len(n_out.df.cols)}
             = {CoreLabels(n_in)[i] : i \in 1..Len(n_in.cols)}

\* What Year and Week values are to become.
Coerced(v) ==
    CASE v = StrV(<<"2", "3">>) -> NumV(23)
      [] v = StrV(<<"b", "a", "d">>) -> Null
      [] v = NumV(7) -> NumV(7)
      [] OTHER -> Null

NumericLabel(label) == label = <<"Year">> \/ label = <<"Week">>

\* Trimming has made two columns both Year, or both Week.
TwiceNumeric(d) ==
    \E i, j \in 1..Len(d.cols) :
        i # j /\ CoreLabels(d)[i] = CoreLabels(d)[j] /\ NumericLabel(CoreLabels(d)[i])

HashIndex(c) == CHOOSE i \in 1..Len(HashFrameCols) : HashFrameCols[i] = c

ValueA(k) == h_rowA[HashIndex(h_cols[k])]
ValueB(k) == h_rowB[HashIndex(h_cols[k])]

\* The text a value is hashed as: nothing for a missing value, the digits of
\* a number, the characters of a string.
TextOf(v) ==
    CASE v.t = "null" -> <<>>
      [] v.t = "num" -> IF v.n = 1 THEN <<"1">> ELSE <<"?">>
      [] OTHER -> v.s

HasBar(x) == \E i \in 1..Len(x) : x[i] = "|"

SameValues == \A k \in 1..Len(h_cols) : ValueA(k) = ValueB(k)

SameTexts == \A k \in 1..Len(h_cols) : TextOf(ValueA(k)) = TextOf(ValueB(k))

NoBars ==
    \A k \in 1..Len(h_cols) : ~HasBar(TextOf(ValueA(k))) /\ ~HasBar(TextOf(ValueB(k)))

\* C7 as stated: two rows get the same fingerprint exactly when they hold
\* the same value in every hashed column, a missing value being a value of
\* its own, different from the empty string.
C7_FingerprintSeparatesValues == h_done => (h_A = h_B <=> SameValues)

\* C7 as amended: two rows whose hashed columns read the same as text (a
\* missing value reads as the empty string, a number as its digits) get the
\* same fingerprint, so rows with identical values do; two rows whose
\* hashed columns differ as text get different fingerprints provided none
\* of these texts contains the character '|'.
C7_FingerprintSeparatesTexts ==
    h_done =>
        /\ SameValues => h_A = h_B
        /\ SameTexts => h_A = h_B
        /\ (NoBars /\ ~SameTexts) => h_A # h_B

\* C7 witness: two rows without '|' that differ in the second hashed column
\* only have got different fingerprints.
C7_Witness ==
    /\ h_done /\ Len(h_cols) = 2 /\ NoBars
    /\ ValueA(1) = ValueB(1) /\ TextOf(ValueA(2)) # TextOf(ValueB(2))
    /\ h_A # h_B

====
